---- MODULE Spec2Model ----
(***************************************************************************)
(* A model of the tagged filesystem driver (tagged_fs.py), its tag-query   *)
(* engine (tag_ops.py) and its path splitter (utils.py).                   *)
(*                                                                         *)
(* Strings that the code takes apart (queries, tag names, the names of     *)
(* the membership markers) are sequences of one-character strings, so      *)
(* that split('+'), str(inode), int(name) and the expression parser are    *)
(* computed as the code computes them.  Filenames and namespace names are  *)
(* only compared for equality and are plain strings.                       *)
(*                                                                         *)
(* Reading rule for the driver.  tagged_fs.py as written cannot be loaded  *)
(* (unbalanced parenthesis at lines 224 and 266) and several statements    *)
(* name things that do not exist (Path for utils.Path, raw_path for path,  *)
(* Path.get_filename, length for size, fname for files[0], the folder of   *)
(* an inode that nobody creates) or hand over an object of a type that the *)
(* callee rejects on every call (a Path object to open, os.remove and      *)
(* utils.Path, a file object to os.lseek, os.read and os.write).  Those    *)
(* fail on every input and are read as the statement they evidently stand  *)
(* for.  Every statement that runs for some input is modelled as written,  *)
(* wrong or not (for instance c.split("+") in rename).                     *)
(***************************************************************************)
EXTENDS Integers, Sequences, FiniteSets, TLC

VARIABLES tags, files, content, inode_counter, saved_counter, allocated, last

vars == <<tags, files, content, inode_counter, saved_counter, allocated, last>>

(***************************************************************************)
(* Bounds                                                                  *)
(***************************************************************************)
\* ids 0 .. MaxInode-1 can be allocated (create is disabled beyond that)
MaxInode == 2
\* number of ids that already exist in the initial states of SpecQuery
QueryInodes == 2
\* longest chain of leaves in the queries given to the query engine
MaxLeaves == 3
\* number of files that are created in SpecIO, where their bytes vary
MaxIOFiles == 1

(***************************************************************************)
(* Characters                                                              *)
(***************************************************************************)
\* letters used in tag names: none of them forms a Python keyword or a
\* numeric literal suffix
Letters == {"a", "c", "d"}

Digits == {"0", "1", "2", "3", "4", "5", "6", "7", "8", "9"}

\* str.isalnum() on one character
IsAlnum(ch) == ch \in Letters \cup Digits

DigitVal(ch) ==
  CASE ch = "0" -> 0 [] ch = "1" -> 1 [] ch = "2" -> 2 [] ch = "3" -> 3
    [] ch = "4" -> 4 [] ch = "5" -> 5 [] ch = "6" -> 6 [] ch = "7" -> 7
    [] ch = "8" -> 8 [] ch = "9" -> 9

DigitChar(n) ==
  CASE n = 0 -> "0" [] n = 1 -> "1" [] n = 2 -> "2" [] n = 3 -> "3"
    [] n = 4 -> "4" [] n = 5 -> "5" [] n = 6 -> "6" [] n = 7 -> "7"
    [] n = 8 -> "8" [] n = 9 -> "9"

RECURSIVE StrOf(_)
\* str(inode): the decimal digits of a non-negative integer
StrOf(n) == IF n < 10 THEN <<DigitChar(n)>>
            ELSE Append(StrOf(n \div 10), DigitChar(n % 10))

RECURSIVE IntOf(_)
\* int(name) of a string of decimal digits
IntOf(s) == IF Len(s) = 0 THEN 0
            ELSE 10 * IntOf(SubSeq(s, 1, Len(s) - 1)) + DigitVal(s[Len(s)])

RECURSIVE SplitFrom(_, _, _)
SplitFrom(s, p, cur) ==
  IF p > Len(s) THEN <<cur>>
  ELSE IF s[p] = "+" THEN <<cur>> \o SplitFrom(s, p + 1, <<>>)
  ELSE SplitFrom(s, p + 1, Append(cur, s[p]))

\* s.split("+")
SplitPlus(s) == SplitFrom(s, 1, <<>>)

(***************************************************************************)
(* tag_ops.py: ast.parse restricted to the tokens the model's queries are  *)
(* made of: names, decimal numbers and the operators + - * & ^ .           *)
(* Precedence, loosest first:  ^   &   + -   *   unary + -                 *)
(***************************************************************************)
NoParse == [ok |-> FALSE, pos |-> 0, node |-> [k |-> "none"]]

Parsed(n, p) == [ok |-> TRUE, pos |-> p, node |-> n]

RECURSIVE RunEnd(_, _)
\* first position at or after p that does not hold an alphanumeric
RunEnd(s, p) == IF p <= Len(s) /\ IsAlnum(s[p]) THEN RunEnd(s, p + 1) ELSE p

\* the token that the characters `text`, which end before position e, make
AtomOf(text, e) ==
  IF text[1] \in Letters
    THEN Parsed([k |-> "Name", id |-> text], e)
  ELSE IF \E i \in 1..Len(text) : text[i] \notin Digits
    THEN NoParse                               \* invalid decimal literal
  ELSE IF Len(text) > 1 /\ text[1] = "0" /\ \E i \in 1..Len(text) : text[i] # "0"
    THEN NoParse                               \* leading zeros
  ELSE Parsed([k |-> "Constant"], e)

AtomUpTo(s, p, e) == AtomOf(SubSeq(s, p, e - 1), e)

\* atom: NAME | NUMBER
ParseAtom(s, p) ==
  IF p > Len(s) \/ ~IsAlnum(s[p]) THEN NoParse ELSE AtomUpTo(s, p, RunEnd(s, p))

\* the node of a unary + or - over the operand r
UnaryOver(r) == IF r.ok THEN Parsed([k |-> "UnaryOp"], r.pos) ELSE NoParse

RECURSIVE ParseFactor(_, _)
\* factor: ('+' | '-') factor | atom
ParseFactor(s, p) ==
  IF p <= Len(s) /\ s[p] \in {"+", "-"}
    THEN UnaryOver(ParseFactor(s, p + 1))
    ELSE ParseAtom(s, p)

\* the node of the operator at the position after l, over l and r
BinOver(s, l, r) ==
  IF r.ok
    THEN Parsed([k |-> "BinOp", op |-> s[l.pos], left |-> l.node, right |-> r.node],
                r.pos)
    ELSE NoParse

RECURSIVE TermRest(_, _)
TermRest(s, l) ==
  IF l.ok /\ l.pos <= Len(s) /\ s[l.pos] = "*"
    THEN TermRest(s, BinOver(s, l, ParseFactor(s, l.pos + 1)))
    ELSE l

\* term: factor ('*' factor)*
ParseTerm(s, p) == TermRest(s, ParseFactor(s, p))

RECURSIVE ArithRest(_, _)
ArithRest(s, l) ==
  IF l.ok /\ l.pos <= Len(s) /\ s[l.pos] \in {"+", "-"}
    THEN ArithRest(s, BinOver(s, l, ParseTerm(s, l.pos + 1)))
    ELSE l

\* arith_expr: term (('+' | '-') term)*
ParseArith(s, p) == ArithRest(s, ParseTerm(s, p))

RECURSIVE AndRest(_, _)
AndRest(s, l) ==
  IF l.ok /\ l.pos <= Len(s) /\ s[l.pos] = "&"
    THEN AndRest(s, BinOver(s, l, ParseArith(s, l.pos + 1)))
    ELSE l

RECURSIVE FlatRest(_, _)
FlatRest(s, l) ==
  IF l.ok /\ l.pos <= Len(s) /\ s[l.pos] \in {"+", "-", "&"}
    THEN FlatRest(s, BinOver(s, l, ParseTerm(s, l.pos + 1)))
    ELSE l

\* ParseAnd with & on the level of + and -, joined left to right
ParseAndFlat(s, p) == FlatRest(s, ParseTerm(s, p))

\* and_expr: arith_expr ('&' arith_expr)*
ParseAnd(s, p) == AndRest(s, ParseArith(s, p))

RECURSIVE XorRest(_, _)
XorRest(s, l) ==
  IF l.ok /\ l.pos <= Len(s) /\ s[l.pos] = "^"
    THEN XorRest(s, BinOver(s, l, ParseAnd(s, l.pos + 1)))
    ELSE l

\* xor_expr: and_expr ('^' and_expr)*
ParseXor(s, p) == XorRest(s, ParseAnd(s, p))

\* the statement must end where the expression ends
WholeInput(s, r) ==
  IF r.ok /\ r.pos = Len(s) + 1
    THEN [err |-> "none", node |-> r.node]
    ELSE [err |-> "SyntaxError", node |-> [k |-> "none"]]

\* ast.parse(expr_str).body[0] followed by the type check of __init__:
\* "IndexError" for an empty body, "SyntaxError" when ast.parse raises
AstParse(s) ==
  IF Len(s) = 0 THEN [err |-> "IndexError", node |-> [k |-> "none"]]
  ELSE WholeInput(s, ParseXor(s, 1))

(***************************************************************************)
(* tag_ops.py: from the Python AST to a TagQuery                           *)
(***************************************************************************)
OP_UNION == "+"
OP_INTERSECT == "&"
OP_DIFF == "-"
OP_SYMDIFF == "^"
VALID_OPS == {OP_UNION, OP_INTERSECT, OP_DIFF, OP_SYMDIFF}

\* The value None, and a raised ValueError
NoneQuery == [k |-> "None"]
BadQuery == [k |-> "ValueError"]

\* parseBinOp once both sides are parsed
BinQuery(op, lq, rq) ==
  IF lq.k = "ValueError" \/ rq.k = "ValueError" THEN BadQuery
  ELSE IF op \notin VALID_OPS THEN BadQuery
  ELSE [k |-> "Bin", op |-> op, left |-> lq, right |-> rq]

RECURSIVE parseValue(_)
\* parseValue with parseUnaryOp and parseBinOp inlined
parseValue(value) ==
  IF value.k = "Name" THEN [k |-> "Unary", tag |-> value.id]
  ELSE IF value.k = "BinOp"
    THEN BinQuery(value.op, parseValue(value.left), parseValue(value.right))
  ELSE NoneQuery

(***************************************************************************)
(* tag_ops.py: evaluation against the tag folder T, a function from the    *)
(* names of the tag directories to the sets of entry names in them         *)
(***************************************************************************)
Raise(e) == [err |-> e, set |-> {}]

Value(S) == [err |-> "none", set |-> S]

\* BinJoin with the symmetric difference computed as the union
BinJoinNoSymdiff(op, left_set, right_set) ==
  CASE op = OP_UNION -> left_set \cup right_set
    [] op = OP_INTERSECT -> left_set \cap right_set
    [] op = OP_DIFF -> left_set \ right_set
    [] op = OP_SYMDIFF -> left_set \cup right_set

\* BinTagQuery.eval, the join of the two operand sets
BinJoin(op, left_set, right_set) ==
  CASE op = OP_UNION -> left_set \cup right_set
    [] op = OP_INTERSECT -> left_set \cap right_set
    [] op = OP_DIFF -> left_set \ right_set
    [] op = OP_SYMDIFF -> (left_set \ right_set) \cup (right_set \ left_set)

\* UnaryEval with a missing tag directory read as an empty one
UnaryEvalMissingEmpty(tag, T) ==
  IF tag \notin DOMAIN T THEN Value({}) ELSE Value({IntOf(m) : m \in T[tag]})

\* UnaryTagQuery.eval
UnaryEval(tag, T) ==
  IF tag \notin DOMAIN T THEN Raise("NotADirectoryError")
  ELSE Value({IntOf(m) : m \in T[tag]})

\* BinTagQuery.eval once both operands are evaluated, the left one first
BinEval(op, left_set, right_set) ==
  IF left_set.err # "none" THEN left_set
  ELSE IF right_set.err # "none" THEN right_set
  ELSE Value(BinJoin(op, left_set.set, right_set.set))

RECURSIVE Eval(_, _)
Eval(q, T) ==
  IF q.k = "Unary" THEN UnaryEval(q.tag, T)
  ELSE IF q.k = "Bin" THEN BinEval(q.op, Eval(q.left, T), Eval(q.right, T))
  ELSE Raise("AttributeError")                \* None has no eval

\* the TagQuery of a parsed statement
QueryOf(a) == IF a.err # "none" THEN [k |-> a.err] ELSE parseValue(a.node)

\* TagQueryParser(query).parse()
ParseQuery(query) == QueryOf(AstParse(query))

\* .eval(tag_folder) of what the parser returned or raised
EvalParsed(q, T) ==
  IF q.k \in {"IndexError", "SyntaxError", "ValueError"} THEN Raise(q.k)
  ELSE Eval(q, T)

get_query_inodes(query, T) == EvalParsed(ParseQuery(query), T)

(***************************************************************************)
(* utils.py: Path.  A request path is a record of its first component      *)
(* (action) and the sequence of the components after it (rest); the root   *)
(* "/" has the empty string as its only component.                         *)
(***************************************************************************)
tags_folder == "tags"
file_folder == "files"
action_folder == "action"

get_action(path) == path.action

\* get_query() is components[1] or None
HasQuery(path) == Len(path.rest) > 0
get_query(path) == path.rest[1]

\* get_filename(): the third component, when there is one
HasFilename(path) == Len(path.rest) > 1
get_filename(path) == path.rest[2]

\* `not query` and `not filename`: None or the empty string
NoQuery(path) == ~HasQuery(path) \/ get_query(path) = <<>>

NoFilename(path) == ~HasFilename(path) \/ get_filename(path) = ""

\* the path "/"
RootPath == [action |-> "", rest |-> <<>>]

\* Path.is_root
is_root(path) == path = RootPath

(***************************************************************************)
(* tagged_fs.py: helper functions.                                         *)
(* tags  : name of tag directory -> set of the entry names in it           *)
(* files : inode whose folder exists -> set of the file names in it        *)
(* content : <<inode, file name>> of a stored file -> its bytes            *)
(***************************************************************************)
EmptyMap == [x \in {} |-> {}]

Ok(T) == [err |-> "none", T |-> T]

Fail(e, T) == [err |-> e, T |-> T]

\* os.path.isdir(os.path.join(root, tags_folder, tag)): joining the empty
\* string names the tags folder itself
TagIsDir(T, tag) == tag = <<>> \/ tag \in DOMAIN T

\* os.makedirs of a directory directly under the tags folder
MakeTagDir(T, tag) == [t \in DOMAIN T \cup {tag} |-> IF t = tag THEN {} ELSE T[t]]

\* addTag that takes an existing tag directory for made
addTagExistOk(T, tag) ==
  IF TagIsDir(T, tag) THEN Ok(T) ELSE Ok(MakeTagDir(T, tag))

addTag(T, tag) ==
  IF TagIsDir(T, tag) THEN Fail("EEXIST", T) ELSE Ok(MakeTagDir(T, tag))

\* removeTag that also takes the members of the tag out of the other tags
removeTagAndMembers(T, tag) ==
  IF ~TagIsDir(T, tag) THEN Fail("ENOTDIR", T)
  ELSE Ok([t \in DOMAIN T \ {tag} |-> T[t] \ T[tag]])

removeTag(T, tag) ==
  IF ~TagIsDir(T, tag) THEN Fail("ENOTDIR", T)
  ELSE Ok([t \in DOMAIN T \ {tag} |-> T[t]])

\* addFile: os.open(..., O_WRONLY | O_CREAT) in the folder of the inode
addFile(F, inode, fname) ==
  [i \in DOMAIN F \cup {inode} |->
     IF i = inode THEN (IF i \in DOMAIN F THEN F[i] ELSE {}) \cup {fname}
     ELSE F[i]]

\* removeFile: os.remove of the file, the folder stays
removeFile(F, inode, fname) == [F EXCEPT ![inode] = @ \ {fname}]

\* addFile on the bytes: O_CREAT without O_TRUNC makes an empty file and
\* leaves a file that is already there as it is
addFileContent(C, inode, fname) ==
  [k \in DOMAIN C \cup {<<inode, fname>>} |-> IF k \in DOMAIN C THEN C[k] ELSE <<>>]

\* removeFile on the bytes
removeFileContent(C, inode, fname) ==
  [k \in DOMAIN C \ {<<inode, fname>>} |-> C[k]]

\* RemoveFromAllTags that stops after the first tag holding the inode
RemoveFromFirstTag(T, inode) ==
  IF \A t \in DOMAIN T : StrOf(inode) \notin T[t] THEN T
  ELSE LET hit == CHOOSE t \in DOMAIN T : StrOf(inode) \in T[t]
       IN [T EXCEPT ![hit] = @ \ {StrOf(inode)}]

\* RemoveFromAllTags that also drops the tags it leaves empty
RemoveFromAllTagsPruning(T, inode) ==
  [t \in {u \in DOMAIN T : T[u] # {StrOf(inode)}} |-> T[t] \ {StrOf(inode)}]

\* RemoveFromAllTags that clears every tag the inode is in
RemoveFromAllTagsEmptying(T, inode) ==
  [t \in DOMAIN T |-> IF StrOf(inode) \in T[t] THEN {} ELSE T[t]]

\* "Remove inode from all tags containing it" (rename and unlink)
RemoveFromAllTags(T, inode) == [t \in DOMAIN T |-> T[t] \ {StrOf(inode)}]

RECURSIVE AddToTags(_, _, _, _)
\* "Create tags if they don't exist and add inode dir entry to each tag"
\* (create and rename), from the k-th tag of the list on
AddToTags(T, taglist, k, inode) ==
  IF k > Len(taglist) THEN Ok(T)
  ELSE LET tag == taglist[k]
           T1 == IF TagIsDir(T, tag) THEN T ELSE addTag(T, tag).T
       IN IF tag = <<>>
            \* os.makedirs(tags/ + str(inode)): a directory among the tags
            THEN IF StrOf(inode) \in DOMAIN T1 THEN Fail("FileExistsError", T1)
                 ELSE AddToTags(MakeTagDir(T1, StrOf(inode)), taglist, k + 1, inode)
            ELSE IF StrOf(inode) \in T1[tag] THEN Fail("FileExistsError", T1)
                 ELSE AddToTags([T1 EXCEPT ![tag] = @ \cup {StrOf(inode)}],
                                taglist, k + 1, inode)

\* ValidTagChars that looks at the first character only
ValidTagCharsFirst(query) == IsAlnum(query[1]) \/ query[1] = "+"

\* "Ensure that query only contains alphanumeric chars and '+'"
ValidTagChars(query) ==
  \A i \in 1..Len(query) : IsAlnum(query[i]) \/ query[i] = "+"

\* getInodeFilepaths: the listing of every inode's folder; the order of
\* os.listdir is not fixed, so `first` picks the entry that comes first
Listings(F, inodes) ==
  {first \in [inodes -> UNION {F[i] : i \in inodes \cap DOMAIN F} \cup {"None"}] :
     \A i \in inodes : IF F[i] = {} THEN first[i] = "None" ELSE first[i] \in F[i]}

\* getFilepath(raw_path): the outcomes the call can have,
\* [err, inode]; inode = -1 stands for the returned None
\* the loop of getFilepath over the files of the inodes r of the query
FindFile(F, r, fname) ==
  IF r.err # "none" THEN {[err |-> r.err, inode |-> -1]}
  ELSE IF \E i \in r.set : i \notin DOMAIN F
    THEN {[err |-> "FileNotFoundError", inode |-> -1]}
  ELSE {[err |-> "none", inode |-> i] : i \in {j \in r.set : fname \in F[j]}}
       \cup {[err |-> "none", inode |-> -1] :
               x \in {y \in {0} : \A j \in r.set : F[j] # {fname}}}

getFilepath(T, F, path) ==
  IF NoQuery(path) \/ NoFilename(path) THEN {[err |-> "EINVAL", inode |-> -1]}
  ELSE FindFile(F, get_query_inodes(get_query(path), T), get_filename(path))

(***************************************************************************)
(* Inputs of the operations                                                *)
(***************************************************************************)
\* tag names that requests use; a tag name is any alphanumeric string, so
\* one of them starts with a digit
Names == {<<"a">>, <<"c">>, <<"0">>}

\* the names that are Python identifiers
LetterNames == {n \in Names : n[1] \in Letters}

\* files are created as "f"; lookups also ask for "g", which no file has
CreateFilenames == {"f"}

OpChars == {"+", "&", "-", "^"}

SeqsUpTo(S, n) == UNION {[1..k -> S] : k \in 1..n}

\* no two name characters side by side: the tags stay one character long
Spaced(s) == \A i \in 1..(Len(s) - 1) : ~(IsAlnum(s[i]) /\ IsAlnum(s[i + 1]))

\* query components of create and rename: tag lists, also with empty
\* components, with a digit tag or with a character that is not allowed
TagListQueries ==
  {s \in SeqsUpTo({n[1] : n \in LetterNames} \cup {"+"}, 3) : Spaced(s)}
    \cup {<<"0">>, <<"0", "+", "a">>, <<"a", "&", "c">>}

\* query components of lookups: a leaf, two leaves and an operator, and
\* some expressions that are not well formed
LookupQueries ==
  Names \cup {<<"a", o, "c">> : o \in OpChars} \cup {<<"c", "-", "a">>}
        \cup {<<"a", "+">>, <<"-", "a">>, <<"a", "*", "c">>}

ActionPath(q, f) == [action |-> action_folder, rest |-> <<q, f>>]

QueryPath(q) == [action |-> action_folder, rest |-> <<q>>]

\* with them a path without a filename, one with an empty query
\* ("/action//f"), one with an empty filename ("/action/a//x") and one
\* below the tags folder
CreatePaths ==
  {ActionPath(q, f) : q \in TagListQueries, f \in CreateFilenames}
    \cup {QueryPath(<<"a">>), ActionPath(<<>>, "f"),
          [action |-> action_folder, rest |-> <<<<"a">>, "", "x">>],
          [action |-> tags_folder, rest |-> <<<<"a">>, "f">>]}

FilePaths ==
  {ActionPath(q, f) : q \in LookupQueries, f \in CreateFilenames}
    \cup {ActionPath(<<"a">>, "g"), QueryPath(<<"a">>)}

RenameOldPaths == {ActionPath(q, f) : q \in Names, f \in CreateFilenames}

RenameNewPaths ==
  {ActionPath(q, "f") :
     q \in {<<"a">>, <<"a", "+", "c">>, <<"a", "+">>,
            <<"0", "+", "a">>, <<"a", "&", "c">>}}
    \cup {ActionPath(<<"c">>, "g"), [action |-> action_folder, rest |-> <<>>]}

TagPaths ==
  {[action |-> tags_folder, rest |-> r] :
      r \in {<<>>, <<<<"a">>, <<"c">>>>, <<<<"c">>, <<"a">>>>} \cup {<<n>> : n \in Names}}
    \cup {[action |-> action_folder, rest |-> <<<<"a">>>>]}

DirPaths ==
  {QueryPath(q) : q \in Names \cup {<<"a", "+", "c">>}}
    \cup {[action |-> tags_folder, rest |-> <<>>],
          [action |-> tags_folder, rest |-> <<<<"a">>>>],
          [action |-> file_folder, rest |-> <<>>],
          [action |-> file_folder, rest |-> <<<<"0">>>>],
          [action |-> action_folder, rest |-> <<>>],
          [action |-> "other", rest |-> <<>>]}

(***************************************************************************)
(* tagged_fs.py: the operations.  last records the latest call: the        *)
(* operation, its arguments, the error it raised ("none" when it           *)
(* returned) and what it returned or worked on.                            *)
(***************************************************************************)
Call(op, path, arg, err, res) ==
  [op |-> op, path |-> path, arg |-> arg, err |-> err, res |-> res]

\* A call that raises before it changes anything
Raises(op, path, arg, err) ==
  /\ last' = Call(op, path, arg, err, {})
  /\ UNCHANGED <<tags, files, content, inode_counter, saved_counter, allocated>>

\* NextCounter without the increment
NextCounterSame(counter) == counter

\* self.inode_counter += 1
NextCounter(counter) == counter + 1

\* TaggedFS.create
Create(path) ==
  /\ inode_counter < MaxInode
  /\ IF get_action(path) # action_folder \/ NoQuery(path) \/ NoFilename(path)
       THEN Raises("create", path, {}, "ENOENT")
     ELSE IF ~ValidTagChars(get_query(path))
       THEN Raises("create", path, {}, "EBADF")
     ELSE LET inode == inode_counter
              r == AddToTags(tags, SplitPlus(get_query(path)), 1, inode)
          IN /\ inode_counter' = NextCounter(inode_counter)
             /\ allocated' = Append(allocated, inode)
             /\ files' = addFile(files, inode, get_filename(path))
             /\ content' = addFileContent(content, inode, get_filename(path))
             /\ tags' = r.T
             \* saveMetadataFile() is the last statement
             /\ saved_counter' = IF r.err = "none" THEN inode_counter'
                                 ELSE saved_counter
             /\ last' = Call("create", path, {}, r.err, inode)

\* TaggedFS.unlink
Unlink(path) ==
  \E found \in getFilepath(tags, files, path) :
    IF found.err # "none" THEN Raises("unlink", path, {}, found.err)
    ELSE IF found.inode = -1 THEN Raises("unlink", path, {}, "TypeError")
    ELSE /\ tags' = RemoveFromAllTags(tags, found.inode)
         /\ files' = removeFile(files, found.inode, get_filename(path))
         /\ content' = removeFileContent(content, found.inode, get_filename(path))
         /\ last' = Call("unlink", path, {}, "none",
                         [inode |-> found.inode,
                          was |-> {t \in DOMAIN tags : StrOf(found.inode) \in tags[t]}])
         /\ UNCHANGED <<inode_counter, saved_counter, allocated>>

\* TaggedFS.rename: new_tags = c.split("+"), where c is the variable of the
\* loop over the characters of query and holds the last of them
RenameTags(query) == SplitPlus(<<query[Len(query)]>>)

Rename(old, new) ==
  IF ~HasQuery(new) THEN Raises("rename", old, new, "TypeError")
  ELSE IF ~ValidTagChars(get_query(new)) THEN Raises("rename", old, new, "EBADF")
  ELSE IF Len(get_query(new)) = 0 THEN Raises("rename", old, new, "NameError")
  ELSE \E found \in getFilepath(tags, files, old) :
    IF found.err # "none" THEN Raises("rename", old, new, found.err)
    ELSE IF found.inode = -1 THEN Raises("rename", old, new, "TypeError")
    ELSE LET r == AddToTags(RemoveFromAllTags(tags, found.inode),
                            RenameTags(get_query(new)), 1, found.inode)
         IN /\ tags' = r.T
            /\ last' = Call("rename", old, new, r.err, found.inode)
            /\ UNCHANGED <<files, content, inode_counter, saved_counter, allocated>>

RECURSIVE AddTags(_, _, _)
\* for tag in tags: self.addTag(tag)
AddTags(T, taglist, k) ==
  IF k > Len(taglist) THEN Ok(T)
  ELSE LET r == addTag(T, taglist[k])
       IN IF r.err # "none" THEN r ELSE AddTags(r.T, taglist, k + 1)

\* TaggedFS.mkdir
Mkdir(path) ==
  IF get_action(path) # tags_folder THEN Raises("mkdir", path, {}, "EPERM")
  ELSE IF Len(path.rest) <= 0 THEN Raises("mkdir", path, {}, "EINVAL")
  ELSE LET r == AddTags(tags, path.rest, 1)
       IN /\ tags' = r.T
          /\ last' = Call("mkdir", path, {}, r.err, {})
          /\ UNCHANGED <<files, content, inode_counter, saved_counter, allocated>>

RECURSIVE RemoveTags(_, _, _)
\* for tag in tags: self.removeTag(tag)
RemoveTags(T, taglist, k) ==
  IF k > Len(taglist) THEN Ok(T)
  ELSE LET r == removeTag(T, taglist[k])
       IN IF r.err # "none" THEN r ELSE RemoveTags(r.T, taglist, k + 1)

\* TaggedFS.rmdir
Rmdir(path) ==
  IF get_action(path) # tags_folder THEN Raises("rmdir", path, {}, "EPERM")
  ELSE IF Len(path.rest) <= 0 THEN Raises("rmdir", path, {}, "EINVAL")
  ELSE LET r == RemoveTags(tags, path.rest, 1)
       IN /\ tags' = r.T
          /\ last' = Call("rmdir", path, {}, r.err, {})
          /\ UNCHANGED <<files, content, inode_counter, saved_counter, allocated>>

\* TaggedFS.readdir on the query of an action path: the outcomes it can
\* have, [err, names]; names is the set of the names in the returned list
NamesOf(F, r) ==
  IF r.err # "none" THEN {[err |-> r.err, names |-> {}]}
  ELSE IF \E i \in r.set : i \notin DOMAIN F
    THEN {[err |-> "FileNotFoundError", names |-> {}]}
  ELSE {[err |-> "none", names |-> {first[i] : i \in r.set} \ {"None"}] :
           first \in Listings(F, r.set)}

QueryListing(T, F, query) == NamesOf(F, get_query_inodes(query, T))

\* os.listdir of a path under the tags folder: the tags, the markers of a
\* tag, or the empty directory that a marker is
TagsDir(T, rest) ==
  IF Len(rest) = 0 THEN [err |-> "none", names |-> DOMAIN T]
  ELSE IF Len(rest) = 1 /\ rest[1] \in DOMAIN T
    THEN [err |-> "none", names |-> T[rest[1]]]
  ELSE IF Len(rest) = 2 /\ rest[1] \in DOMAIN T /\ rest[2] \in T[rest[1]]
    THEN [err |-> "none", names |-> {}]
  ELSE [err |-> "FileNotFoundError", names |-> {}]

RECURSIVE Flatten(_)
Flatten(rest) == IF Len(rest) = 0 THEN <<>> ELSE Head(rest) \o Flatten(Tail(rest))

IsPrefix(pre, str) == Len(pre) <= Len(str) /\ SubSeq(str, 1, Len(pre)) = pre

\* os.listdir of a path of digit folders under the file folder: the files
\* of the inode with these digits, and the next digits of longer inodes
FilesDir(F, rest) ==
  IF \E k \in 1..Len(rest) : Len(rest[k]) # 1 \/ rest[k][1] \notin Digits
    THEN [err |-> "FileNotFoundError", names |-> {}]
  ELSE IF Len(rest) > 0 /\ ~\E i \in DOMAIN F : IsPrefix(Flatten(rest), StrOf(i))
    THEN [err |-> "FileNotFoundError", names |-> {}]
  ELSE [err |-> "none",
        names |-> UNION {F[i] : i \in {j \in DOMAIN F : StrOf(j) = Flatten(rest)}}
                  \cup {StrOf(i)[Len(Flatten(rest)) + 1] :
                          i \in {j \in DOMAIN F : /\ IsPrefix(Flatten(rest), StrOf(j))
                                                   /\ Len(StrOf(j)) > Len(Flatten(rest))}}]

\* TaggedFS.readdir
Readdir(path) ==
  /\ UNCHANGED <<tags, files, content, inode_counter, saved_counter, allocated>>
  /\ IF get_action(path) = tags_folder
       THEN \E l \in {TagsDir(tags, path.rest)} :
              last' = Call("readdir", path, {}, l.err, l.names)
     ELSE IF get_action(path) = file_folder
       THEN \E l \in {FilesDir(files, path.rest)} :
              last' = Call("readdir", path, {}, l.err, l.names)
     ELSE IF get_action(path) # action_folder
       THEN last' = Call("readdir", path, {}, "ENOENT", {})
     ELSE IF NoQuery(path)
       THEN last' = Call("readdir", path, {}, "EINVAL", {})
     ELSE \E l \in QueryListing(tags, files, get_query(path)) :
            last' = Call("readdir", path, {}, l.err, l.names)

\* os.lseek(fh, offset, SEEK_SET) and os.read(fh, size): the bytes from
\* offset on, as many as there are and at most size
ReadRange(bytes, offset, size) ==
  SubSeq(bytes, offset + 1,
         IF offset + size < Len(bytes) THEN offset + size ELSE Len(bytes))

\* TaggedFS.read; res holds the file-id that was resolved and the bytes
\* that are returned
Read(path, size, offset) ==
  /\ UNCHANGED <<tags, files, content, inode_counter, saved_counter, allocated>>
  /\ \E found \in getFilepath(tags, files, path) :
       IF found.err # "none"
         THEN last' = Call("read", path, <<size, offset>>, found.err, <<>>)
       ELSE IF found.inode = -1
         THEN last' = Call("read", path, <<size, offset>>, "ENOENT", <<>>)
       ELSE last' = Call("read", path, <<size, offset>>, "none",
                         [inode |-> found.inode,
                          bytes |-> ReadRange(content[<<found.inode, get_filename(path)>>],
                                              offset, size)])

\* WriteRange that ignores the seek and writes at the end of the file
WriteRangeAppending(bytes, offset, data) == bytes \o data

\* os.lseek(fh, offset, SEEK_SET) and os.write(fh, data) on a file opened
\* "r+b": the bytes of the file afterwards; the gap that a seek past the
\* end leaves reads as zero bytes
WriteRange(bytes, offset, data) ==
  IF Len(data) = 0 THEN bytes
  ELSE [k \in 1..(IF Len(bytes) > offset + Len(data) THEN Len(bytes)
                  ELSE offset + Len(data)) |->
          IF k > offset /\ k <= offset + Len(data) THEN data[k - offset]
          ELSE IF k <= Len(bytes) THEN bytes[k]
          ELSE 0]

\* TaggedFS.write; res holds the file-id that was resolved and the count
\* that is returned
Write(path, data, offset) ==
  \E found \in getFilepath(tags, files, path) :
    IF found.err # "none" THEN Raises("write", path, <<data, offset>>, found.err)
    ELSE IF found.inode = -1 THEN Raises("write", path, <<data, offset>>, "ENOENT")
    ELSE /\ content' = [content EXCEPT ![<<found.inode, get_filename(path)>>] =
                                         WriteRange(@, offset, data)]
         /\ last' = Call("write", path, <<data, offset>>, "none",
                         [inode |-> found.inode, count |-> Len(data)])
         /\ UNCHANGED <<tags, files, inode_counter, saved_counter, allocated>>

\* the attributes that getattr hands back, as far as the model has them
DirAttr == [st_mode |-> "S_IFDIR"]

FileAttr(bytes) == [st_mode |-> "S_IFREG", st_size |-> Len(bytes)]

\* os.lstat of a path that readdir could list: everything below the tags
\* folder, and every digit folder below the file folder, is a directory
LstatDir(l) == IF l.err = "none" THEN [err |-> "none", attr |-> DirAttr]
               ELSE [err |-> l.err, attr |-> {}]

\* TaggedFS.getattr
Getattr(path) ==
  /\ UNCHANGED <<tags, files, content, inode_counter, saved_counter, allocated>>
  /\ IF is_root(path)
       THEN last' = Call("getattr", path, {}, "none", DirAttr)
     ELSE IF get_action(path) = tags_folder
       THEN \E st \in {LstatDir(TagsDir(tags, path.rest))} :
              last' = Call("getattr", path, {}, st.err, st.attr)
     ELSE IF get_action(path) = file_folder
       THEN \E st \in {LstatDir(FilesDir(files, path.rest))} :
              last' = Call("getattr", path, {}, st.err, st.attr)
     ELSE IF get_action(path) # action_folder
       THEN last' = Call("getattr", path, {}, "ENOENT", {})
     ELSE IF Len(path.rest) > 1
       THEN \E found \in getFilepath(tags, files, path) :
              IF found.err # "none"
                THEN last' = Call("getattr", path, {}, found.err, {})
              ELSE IF found.inode = -1
                THEN last' = Call("getattr", path, {}, "ENOENT", {})
              ELSE last' = Call("getattr", path, {}, "none",
                                FileAttr(content[<<found.inode, get_filename(path)>>]))
     ELSE last' = Call("getattr", path, {}, "none", DirAttr)

(***************************************************************************)
(* One mounted instance, calls served one at a time                        *)
(***************************************************************************)
\* __init__ without a metadata file: initFilesystem
Init ==
  /\ tags = EmptyMap
  /\ files = EmptyMap
  /\ content = EmptyMap
  /\ inode_counter = 0
  /\ saved_counter = 0
  /\ allocated = <<>>
  /\ last = Call("init", {}, {}, "none", {})

DoCreate == \E path \in CreatePaths : Create(path)

DoUnlink == \E path \in FilePaths : Unlink(path)

DoRename == \E old \in RenameOldPaths, new \in RenameNewPaths : Rename(old, new)

DoMkdir == \E path \in TagPaths : Mkdir(path)

DoRmdir == \E path \in TagPaths : Rmdir(path)

DoReaddir == \E path \in DirPaths : Readdir(path)

Next == DoCreate \/ DoUnlink \/ DoRename \/ DoMkdir \/ DoRmdir \/ DoReaddir

Spec == Init /\ [][Next]_vars

(***************************************************************************)
(* The same instance with the calls that work on the bytes of a file       *)
(* (read, write, getattr) among the others, on fewer paths                 *)
(***************************************************************************)
\* a path below a folder that is none of the three namespaces
OtherPath(q, f) == [action |-> "other", rest |-> <<q, f>>]

IOCreatePaths ==
  {ActionPath(<<"a">>, "f"), ActionPath(<<"a", "+", "c">>, "f"), OtherPath(<<"a">>, "f")}

\* files that exist, a name no file has, a tag nobody made, a path without
\* a filename and a path outside the namespaces
IOFilePaths ==
  {ActionPath(<<"a">>, "f"), ActionPath(<<"a">>, "g"), ActionPath(<<"d">>, "f"),
   QueryPath(<<"a">>), OtherPath(<<"a">>, "f")}

\* the paths that read and write are called with
IOBytePaths ==
  {ActionPath(<<"a">>, "f"), ActionPath(<<"c">>, "f"), ActionPath(<<"a">>, "g"),
   OtherPath(<<"c">>, "f")}

IORenameOldPaths == {ActionPath(<<"a">>, "f"), OtherPath(<<"a">>, "f")}

IORenameNewPaths == {ActionPath(<<"c">>, "g"), OtherPath(<<"c">>, "f")}

IOTagPaths ==
  {[action |-> tags_folder, rest |-> <<<<"a">>>>],
   [action |-> "other", rest |-> <<<<"a">>>>]}

IODirPaths ==
  {RootPath, QueryPath(<<"a">>),
   [action |-> tags_folder, rest |-> <<<<"a">>>>],
   [action |-> file_folder, rest |-> <<<<"0">>>>],
   [action |-> "other", rest |-> <<<<"a">>>>]}

\* the byte strings that are written, and where; what is read, and where
WriteData == {<<>>, <<1>>, <<2, 1>>}

Offsets == {0, 1}

ReadSizes == {0, 1, 2, 3}

DoCreateIO ==
  /\ inode_counter < MaxIOFiles
  /\ \E path \in IOCreatePaths : Create(path)

DoUnlinkIO == \E path \in IOFilePaths : Unlink(path)

DoRenameIO == \E old \in IORenameOldPaths, new \in IORenameNewPaths : Rename(old, new)

DoMkdirIO == \E path \in IOTagPaths : Mkdir(path)

DoRmdirIO == \E path \in IOTagPaths : Rmdir(path)

DoReaddirIO == \E path \in IODirPaths : Readdir(path)

DoGetattr == \E path \in IODirPaths \cup IOFilePaths : Getattr(path)

DoRead == \E path \in IOBytePaths, size \in ReadSizes, offset \in Offsets :
            Read(path, size, offset)

DoWrite == \E path \in IOBytePaths, data \in WriteData, offset \in Offsets :
             Write(path, data, offset)

NextIO ==
  \/ DoCreateIO \/ DoUnlinkIO \/ DoRenameIO \/ DoMkdirIO \/ DoRmdirIO
  \/ DoReaddirIO \/ DoGetattr \/ DoRead \/ DoWrite

SpecIO == Init /\ [][NextIO]_vars

(***************************************************************************)
(* The query engine on its own (query_test.py: printQuery): every tag      *)
(* folder over the letter tags and the first QueryInodes ids, and the      *)
(* queries evaluated against it                                            *)
(***************************************************************************)
QueryNames == {<<l>> : l \in Letters}

QueryMarkers == {StrOf(i) : i \in 0..(QueryInodes - 1)}

TagFolders ==
  UNION {[D -> SUBSET QueryMarkers] : D \in SUBSET QueryNames}

RECURSIVE Chains(_)
\* leaf (OP leaf)* with n leaves
Chains(n) ==
  IF n = 1 THEN QueryNames
  ELSE {ch \o <<o>> \o l : ch \in Chains(n - 1), o \in OpChars, l \in QueryNames}

Malformed ==
  {<<>>, <<"+">>, <<"a", "+">>, <<"-", "a">>, <<"a", "+", "+", "c">>,
   <<"a", "*", "c">>, <<"0">>, <<"a", "+", "0">>, <<"0", "a">>, <<"a", "^", "&", "c">>}

EngineQueries == UNION {Chains(n) : n \in 1..MaxLeaves} \cup Malformed

InitQuery ==
  /\ tags \in TagFolders
  /\ files = [i \in 0..(QueryInodes - 1) |-> {"f"}]
  /\ content = [k \in {<<i, "f">> : i \in 0..(QueryInodes - 1)} |-> <<>>]
  /\ inode_counter = QueryInodes
  /\ saved_counter = QueryInodes
  /\ allocated = <<>>
  /\ last = Call("init", {}, {}, "none", {})

\* Evaluate whose leaf makes the directory of a tag that is missing
EvaluateMakingTag ==
  /\ last.op = "init"
  /\ \E query \in EngineQueries :
       \E q \in {ParseQuery(query)} :
         \E r \in {EvalParsed(q, tags)} :
           /\ last' = Call("query", query, q.k, r.err, r.set)
           /\ tags' = IF q.k = "Unary" /\ q.tag \notin DOMAIN tags
                        THEN MakeTagDir(tags, q.tag) ELSE tags
  /\ UNCHANGED <<files, content, inode_counter, saved_counter, allocated>>

\* printQuery(query, path), once for each tag folder and query; arg holds
\* what the parser handed back or raised
Evaluate ==
  /\ last.op = "init"
  /\ \E query \in EngineQueries :
       \E q \in {ParseQuery(query)} :
         \E r \in {EvalParsed(q, tags)} :
           last' = Call("query", query, q.k, r.err, r.set)
  /\ UNCHANGED <<tags, files, content, inode_counter, saved_counter, allocated>>

SpecQuery == InitQuery /\ [][Evaluate]_vars

\* printQuery(query, path) once more, with the query of the call before
EvaluateAgain ==
  /\ last.op = "query"
  /\ \E q \in {ParseQuery(last.path)} :
       \E r \in {EvalParsed(q, tags)} :
         last' = Call("requery", last.path, q.k, r.err, r.set)
  /\ UNCHANGED <<tags, files, content, inode_counter, saved_counter, allocated>>

NextRequery == Evaluate \/ EvaluateAgain

\* every query evaluated twice in a row
SpecRequery == InitQuery /\ [][NextRequery]_vars

(***************************************************************************)
(* Set algebra and query shapes that the properties are stated with        *)
(***************************************************************************)
\* the file-ids recorded in tag t
Members(t) == {IntOf(m) : m \in tags[t]}

SetOp(o, L, R) ==
  CASE o = "+" -> L \cup R
    [] o = "&" -> L \cap R
    [] o = "-" -> L \ R
    [] o = "^" -> (L \cup R) \ (L \cap R)

\* leaf (OP leaf)* over one-character leaves
IsChain(q) ==
  /\ Len(q) % 2 = 1
  /\ \A i \in 1..Len(q) : IF i % 2 = 1 THEN q[i] \in Letters ELSE q[i] \in OpChars

Leaves(q) == {<<q[i]>> : i \in {j \in 1..Len(q) : j % 2 = 1}}

Evaluated == last.op = "query"

Prec(o) == CASE o \in {"+", "-"} -> 3 [] o = "&" -> 2 [] o = "^" -> 1

ExistingChain3 ==
  /\ Evaluated /\ IsChain(last.path) /\ Len(last.path) = 5
  /\ Leaves(last.path) \subseteq DOMAIN tags

\* C9 as claimed: a OP1 b OP2 c evaluates to (a OP1 b) OP2 c for all four
\* operators, without precedence between them
C9_LeftToRight ==
  ExistingChain3 =>
     /\ last.err = "none"
     /\ last.res = SetOp(last.path[4],
                         SetOp(last.path[2], Members(<<last.path[1]>>),
                               Members(<<last.path[3]>>)),
                         Members(<<last.path[5]>>))

\* C9 amended: for tags that a query can name, a OP1 b OP2 c evaluates to a OP1 (b OP2 c) when OP2 binds
\* tighter than OP1 in Python's grammar, and to (a OP1 b) OP2 c otherwise
C9_PythonPrecedence ==
  ExistingChain3 =>
     /\ last.err = "none"
     /\ last.res =
          IF Prec(last.path[4]) > Prec(last.path[2])
            THEN SetOp(last.path[2], Members(<<last.path[1]>>),
                       SetOp(last.path[4], Members(<<last.path[3]>>),
                             Members(<<last.path[5]>>)))
            ELSE SetOp(last.path[4],
                       SetOp(last.path[2], Members(<<last.path[1]>>),
                             Members(<<last.path[3]>>)),
                       Members(<<last.path[5]>>))

\* a chain whose two readings differ on this tag folder
C9_Witness ==
  /\ ExistingChain3 /\ last.err = "none"
  /\ Prec(last.path[4]) > Prec(last.path[2])
  /\ last.res # SetOp(last.path[4],
                      SetOp(last.path[2], Members(<<last.path[1]>>),
                            Members(<<last.path[3]>>)),
                      Members(<<last.path[5]>>))

Mount ==
  /\ inode_counter' = saved_counter
  /\ allocated' = <<>>

\* the process dies between two calls and the filesystem is mounted again
Crash ==
  /\ Mount
  /\ last' = Call("crash", {}, {}, "none", {})
  /\ UNCHANGED <<tags, files, content, saved_counter>>

\* the process dies inside create, after addFile and the first `done` tags
\* of the loop, and the filesystem is mounted again
CrashInCreate(path, done) ==
  /\ inode_counter < MaxInode
  /\ get_action(path) = action_folder /\ ~NoQuery(path) /\ ~NoFilename(path)
  /\ ValidTagChars(get_query(path))
  /\ done <= Len(SplitPlus(get_query(path)))
  /\ LET r == AddToTags(tags, SubSeq(SplitPlus(get_query(path)), 1, done), 1,
                        inode_counter)
     IN /\ r.err = "none"
        /\ files' = addFile(files, inode_counter, get_filename(path))
        /\ content' = addFileContent(content, inode_counter, get_filename(path))
        /\ tags' = r.T
  /\ Mount
  /\ last' = Call("crash", path, done, "none", {})
  /\ UNCHANGED saved_counter

\* destroy at a clean unmount (saveMetadataFile), and the next mount
Remount ==
  /\ saved_counter' = inode_counter
  /\ inode_counter' = saved_counter'
  /\ allocated' = <<>>
  /\ last' = Call("destroy", {}, {}, "none", {})
  /\ UNCHANGED <<tags, files, content>>

DoCrashInCreate == \E path \in CreatePaths, done \in 0..2 : CrashInCreate(path, done)

NextCrash == DoCreate \/ DoUnlink \/ Crash \/ DoCrashInCreate \/ Remount

SpecCrash == Init /\ [][NextCrash]_vars

(***************************************************************************)
(* Properties of the filesystem operations                                 *)
(***************************************************************************)
HasStorage(i) == i \in DOMAIN files /\ files[i] # {}

HasMembership(i) == \E t \in DOMAIN tags : StrOf(i) \in tags[t]

Succeeded(op) == last.op = op /\ last.err = "none"

\* C2: every file-id recorded in some tag has stored content
C2_NoDanglingMember ==
  \A t \in DOMAIN tags : \A m \in tags[t] : HasStorage(IntOf(m))

\* a file that was in two tags has been removed while another file is
\* still tagged
C2_Witness ==
  /\ Succeeded("unlink") /\ Cardinality(last.res.was) >= 2
  /\ \E t \in DOMAIN tags : tags[t] # {}

\* T1+...+Tn with every Ti a tag name
IsTagList(query) ==
  \A k \in 1..Len(SplitPlus(query)) : SplitPlus(query)[k] # <<>>

\* C3 as claimed: after a successful rename the file-id is a member of
\* every tag of the `+`-joined list of the new path and of no other tag
C3_RenamedToAllNewTags ==
  (Succeeded("rename") /\ IsTagList(get_query(last.arg))) =>
     LET named == {SplitPlus(get_query(last.arg))[k] :
                     k \in 1..Len(SplitPlus(get_query(last.arg)))}
     IN /\ \A t \in named : t \in DOMAIN tags /\ StrOf(last.res) \in tags[t]
        /\ \A t \in DOMAIN tags \ named : StrOf(last.res) \notin tags[t]

\* every outcome of listing the query holds the name
AlwaysLists(query, fname) ==
  \A l \in QueryListing(tags, files, query) : l.err = "none" /\ fname \in l.names

\* C4 as claimed: after a successful create with the query "t1+t2" and the
\* filename f, the listings of "t1", "t2", "t1&t2" and "t1+t2" hold f, and
\* the listing of a third tag, which holds no other file named f, does not
C4_ListedUnderItsTags ==
  (/\ Succeeded("create") /\ Len(get_query(last.path)) = 3
   /\ get_query(last.path)[2] = "+"
   /\ <<get_query(last.path)[1]>> \in Names /\ <<get_query(last.path)[3]>> \in Names) =>
     LET t1 == get_query(last.path)[1]
         t2 == get_query(last.path)[3]
         f == get_filename(last.path)
     IN /\ AlwaysLists(<<t1>>, f)
        /\ AlwaysLists(<<t2>>, f)
        /\ AlwaysLists(<<t1, "&", t2>>, f)
        /\ AlwaysLists(<<t1, "+", t2>>, f)
        /\ \A t3 \in Names \ {<<t1>>, <<t2>>} :
             (t3 \in DOMAIN tags => \A m \in tags[t3] : f \notin files[IntOf(m)]) =>
                \A l \in QueryListing(tags, files, t3) : f \notin l.names

\* C5: a successful remove leaves the file-id in no tag, also not in tags
\* the query did not mention, deletes its storage, and keeps every tag
C5_RemoveClearsEveryTag ==
  [][(last'.op = "unlink" /\ last'.err = "none") =>
       /\ \A t \in DOMAIN tags' : StrOf(last'.res.inode) \notin tags'[t]
       /\ files'[last'.res.inode] = {}
       /\ DOMAIN tags' = DOMAIN tags]_vars

\* the file was found through one tag and was a member of another one too
C5_Witness ==
  /\ Succeeded("unlink") /\ Len(get_query(last.path)) = 1
  /\ \E t \in last.res.was : t # get_query(last.path)
  /\ ~HasStorage(last.res.inode)

\* C6: within one mounted instance the counter never decreases and every
\* create allocates an id greater than all ids allocated before
C6_IdsIncrease ==
  [][/\ inode_counter' >= inode_counter
     /\ allocated' # allocated =>
          \A k \in 1..Len(allocated) : allocated[k] < allocated'[Len(allocated')]]_vars

\* a create after the removal of the first file
C6_Witness ==
  /\ Succeeded("create") /\ Len(allocated) = 2
  /\ ~HasStorage(allocated[1]) /\ last.res = allocated[2]

\* C7 as claimed: no create, also after a crash and a mount, allocates a
\* file-id that already has storage or a tag membership
C7_NoReissueAfterCrash ==
  [][(last'.op = "create" /\ allocated' # allocated) =>
       ~HasStorage(inode_counter) /\ ~HasMembership(inode_counter)]_vars

\* C8 as claimed: when create, rename, mkdir or rmdir reports an error, the
\* tag index, the file store and the counter are what they were before
C8_ErrorChangesNothing ==
  [][(last'.op \in {"create", "rename", "mkdir", "rmdir"} /\ last'.err # "none") =>
       tags' = tags /\ files' = files /\ inode_counter' = inode_counter]_vars

\* C11: a successful rename changes only the tag memberships of the file-id
\* it resolved and, by making tags, the set of tags: the names and bytes of
\* all stored files, the counter and the memberships of every other
\* file-id are what they were, and no tag disappears
C11_RenameFrame ==
  [][(last'.op = "rename" /\ last'.err = "none") =>
       /\ files' = files /\ content' = content
       /\ inode_counter' = inode_counter /\ saved_counter' = saved_counter
       /\ DOMAIN tags \subseteq DOMAIN tags'
       /\ \A t \in DOMAIN tags :
            tags'[t] \ {StrOf(last'.res)} = tags[t] \ {StrOf(last'.res)}
       /\ \A t \in DOMAIN tags' \ DOMAIN tags : tags'[t] \subseteq {StrOf(last'.res)}]_vars

\* a file renamed to a new tag and a new filename while another file, which
\* shared a tag with it, is stored and tagged
C11_Witness ==
  /\ Succeeded("rename") /\ get_filename(last.arg) = "g"
  /\ files[last.res] = {"f"}
  /\ StrOf(last.res) \in tags[<<"c">>]
  /\ \E j \in DOMAIN files : j # last.res /\ HasStorage(j) /\ HasMembership(j)

\* the first tag that a call on the tags folder names
NamesTag(call) == get_action(call.path) = tags_folder /\ Len(call.path.rest) >= 1

NamedTags(call) == {call.path.rest[k] : k \in 1..Len(call.path.rest)}

\* C13: a successful rmdir removes the tags it names with their membership
\* records and nothing else: every other tag keeps its members, every
\* stored file its name and bytes, also the members of the removed tags,
\* and the counter its value
C13_RemoveTagFrame ==
  [][(last'.op = "rmdir" /\ last'.err = "none") =>
       /\ NamedTags(last') \subseteq DOMAIN tags
       /\ tags' = [t \in DOMAIN tags \ NamedTags(last') |-> tags[t]]
       /\ files' = files /\ content' = content
       /\ inode_counter' = inode_counter /\ saved_counter' = saved_counter]_vars

\* a tag has been removed, a stored file is left in no tag and another tag
\* still has a member
C13_Witness ==
  /\ Succeeded("rmdir") /\ Len(last.path.rest) = 1
  /\ \E i \in DOMAIN files : HasStorage(i) /\ ~HasMembership(i)
  /\ \E t \in DOMAIN tags : tags[t] # {}

\* a create on the action folder that names no query, no filename, or a
\* query with a character that is neither alphanumeric nor "+"
HasOtherChar(query) ==
  \E i \in 1..Len(query) : query[i] \notin Letters \cup Digits \cup {"+"}

BadCreate(call) ==
  /\ call.op = "create" /\ get_action(call.path) = action_folder
  /\ NoQuery(call.path) \/ NoFilename(call.path) \/ HasOtherChar(get_query(call.path))

NothingChanged ==
  /\ tags' = tags /\ files' = files /\ content' = content
  /\ inode_counter' = inode_counter /\ saved_counter' = saved_counter
  /\ allocated' = allocated

OutsideNamespaces(path) ==
  ~is_root(path) /\ get_action(path) \notin {tags_folder, file_folder, action_folder}

\* C15 as claimed: every call with a path outside the three namespaces,
\* and every rename from or to such a path, fails and leaves the tag
\* index, the file store and the counter as they were
C15_NamespaceChecked ==
  [][(\/ /\ last'.op \in {"getattr", "readdir", "create", "unlink", "read", "write",
                          "mkdir", "rmdir"}
         /\ OutsideNamespaces(last'.path)
      \/ /\ last'.op = "rename"
         /\ OutsideNamespaces(last'.path) \/ OutsideNamespaces(last'.arg)) =>
       last'.err # "none" /\ NothingChanged]_vars

\* the query of the path evaluates on the index T and no file-id of its
\* result has a stored file of the path's filename
NoSuchFile(T, F, path) ==
  /\ get_action(path) = action_folder /\ Len(path.rest) = 2
  /\ ~NoQuery(path) /\ ~NoFilename(path)
  /\ get_query_inodes(get_query(path), T).err = "none"
  /\ \A i \in get_query_inodes(get_query(path), T).set :
       i \in DOMAIN F /\ get_filename(path) \notin F[i]

\* C16 as claimed: unlink, read, write and getattr of a (query, filename)
\* path whose query result holds no file of that name fail with ENOENT
\* (NotFound) and change nothing
C16_MissingFileNotFound ==
  [][(/\ last'.op \in {"unlink", "read", "write", "getattr"}
      /\ NoSuchFile(tags, files, last'.path)) =>
       last'.err = "ENOENT" /\ NothingChanged]_vars

\* every outcome of resolving the path is a file
Resolves(path) ==
  \A found \in getFilepath(tags, files, path) : found.err = "none" /\ found.inode # -1

\* the bytes of a file from offset on, at most size of them
Available(bytes, offset, size) ==
  [k \in 1..(IF Len(bytes) - offset < size
               THEN (IF Len(bytes) > offset THEN Len(bytes) - offset ELSE 0)
               ELSE size) |-> bytes[offset + k]]

C18_MalformedRejected ==
  (Evaluated /\ ~IsChain(last.path)) => last.arg = "SyntaxError"

Components(query) == {SplitPlus(query)[k] : k \in 1..Len(SplitPlus(query))}

\* the tag names that a call names: the path segments of mkdir, the
\* components of the query of create and of the new path of rename
NamedBy(call) ==
  IF call.op = "mkdir" THEN NamedTags(call)
  ELSE IF call.op = "create" /\ HasQuery(call.path) THEN Components(get_query(call.path))
  ELSE IF call.op = "rename" /\ HasQuery(call.arg) THEN Components(get_query(call.arg))
  ELSE {}

\* C20 as claimed: every tag that a call adds to the index has a name that
\* is not empty and that the call named, so that every tag of a reachable
\* index was named by some mkdir, create or rename
C20_OnlyNamedTags ==
  [][\A t \in DOMAIN tags' \ DOMAIN tags : t # <<>> /\ t \in NamedBy(last')]_vars

\* the file-ids that the lookup of (query, filename) can return
Identified(query, fname) ==
  {found.inode : found \in
     {r \in getFilepath(tags, files, ActionPath(query, fname)) :
        r.err = "none" /\ r.inode # -1}}

\* C21 as claimed: in every reachable state no tag has two member file-ids
\* with stored content that carry the same filename, so that the lookup of
\* a filename under a single-tag query identifies at most one file-id
C21_UniqueFilenames ==
  /\ \A t \in DOMAIN tags : \A i, j \in DOMAIN files :
       (i # j /\ StrOf(i) \in tags[t] /\ StrOf(j) \in tags[t]) =>
          files[i] \cap files[j] = {}
  /\ \A t \in LetterNames : \A fname \in CreateFilenames :
       Cardinality(Identified(t, fname)) <= 1

====
